---- MODULE Spec2Model ----
(***************************************************************************)
(* HotelDeskPro (src/app.py): a Flask front desk over one SQLite file.     *)
(* The model keeps the committed content of hotel.db, the browser session, *)
(* the holder of the database's write lock and, for every request worker   *)
(* of the threaded server, its position in the handler, its local          *)
(* variables and the uncommitted transaction of its connection, together   *)
(* with the last response sent.  Each SQL statement is one atomic step; a  *)
(* connection's writes become visible to the others at conn.commit().      *)
(* A handler that raises never closes its connection: the write lock it    *)
(* held stays taken until the garbage collector closes the connection.     *)
(***************************************************************************)
EXTENDS Integers, Sequences, FiniteSets, TLC

VARIABLES db, session, lock, pc, local, txn, resp

vars == <<db, session, lock, pc, local, txn, resp>>

\* ------------------------------------------------------------------ bounds
\* rows stored in clients, rooms and bookings together
MaxRows == 3

\* the request workers, each with its own connection
Workers == {1, 2}

\* ------------------------------------------------------- request inputs
Usernames == {"admin", "guest"}
Passwords == {"admin123", "wrong"}
Methods == {"GET", "POST"}
Names == {"Jane Doe"}
Phones == {"555-1234"}
\* the price field of the room form, as the characters typed
Price100 == <<"1", "0", "0">>
PriceAbc == <<"a", "b", "c">>
\* the room forms: number, type, price
RoomForms == {<<"101", "Standard", Price100>>, <<"102", "Suite", PriceAbc>>}
RoomIds == 1..Cardinality(RoomForms)
\* form dates, as the year, month and day fields of a "%Y-%m-%d" text
Jan31 == <<2026, 1, 31>>
Feb02 == <<2026, 2, 2>>
Feb30 == <<2026, 2, 30>>
\* a client id that no client has
NoSuchClient == MaxRows + 1
\* the booking forms, client_id, checkin, checkout: a stay of two nights,
\* a stay of no night, a stay that ends before it starts for a client that
\* does not exist, and a checkout that is no date
BookingForms == {<<1, Jan31, Feb02>>, <<1, Jan31, Jan31>>,
                 <<NoSuchClient, Feb02, Jan31>>, <<1, Jan31, Feb30>>}
BookingIds == 1..MaxRows

\* ------------------------------------------------------------ constants
Disponible == "Disponible"
Occupee == "Occupée"
NoLock == 0
\* the write lock in the hands of a connection that no handler closed
Leaked == Cardinality(Workers) + 1
NoTxn == [none |-> "txn"]
NoLocal == [none |-> "local"]
NoRow == [none |-> "row"]

\* ------------------------------------------------------------ sequences
Rows(table) == {table[i] : i \in 1..Len(table)}

\* fetchone() of "SELECT ... WHERE id=?": the row with that primary key
FetchById(table, id) ==
    IF \E i \in 1..Len(table) : table[i].id = id
    THEN table[CHOOSE i \in 1..Len(table) : table[i].id = id]
    ELSE NoRow

\* INTEGER PRIMARY KEY AUTOINCREMENT: one more than the largest id so far
NextId(table) == Len(table) + 1

\* ---------------------------------------------------------------- dates
\* ---------------------------------------------------------------- dates
IsLeap(y) == (y % 4 = 0) /\ ((y % 100 # 0) \/ (y % 400 = 0))

DaysInMonth(y, m) ==
    IF m = 2 THEN (IF IsLeap(y) THEN 29 ELSE 28)
    ELSE IF m \in {4, 6, 9, 11} THEN 30 ELSE 31

RECURSIVE DaysBeforeMonth(_, _)
DaysBeforeMonth(y, m) ==
    IF m = 1 THEN 0 ELSE DaysBeforeMonth(y, m - 1) + DaysInMonth(y, m - 1)

DaysBeforeYear(y) ==
    (y - 1) * 365 + ((y - 1) \div 4) - ((y - 1) \div 100) + ((y - 1) \div 400)

\* datetime.strptime(text, "%Y-%m-%d") raises ValueError unless this holds
ValidDate(d) ==
    d[1] \in 1..9999 /\ d[2] \in 1..12 /\ d[3] \in 1..DaysInMonth(d[1], d[2])

\* the proleptic Gregorian ordinal of the parsed date
Strptime(d) == DaysBeforeYear(d[1]) + DaysBeforeMonth(d[1], d[2]) + d[3]

\* (strptime(checkout) - strptime(checkin)).days
TotalDays(checkin, checkout) == Strptime(checkout) - Strptime(checkin)

\* ------------------------------------------------------- REAL columns
\* A value of a REAL column is a number, [real |-> n], or a text that is
\* not a number, [text |-> characters].
IsReal(v) == "real" \in DOMAIN v

Digits == <<"0", "1", "2", "3", "4", "5", "6", "7", "8", "9">>

DigitValue(c) == (CHOOSE i \in 1..Len(Digits) : Digits[i] = c) - 1

\* the text is a decimal literal (of the model's texts: digits only)
IsNumeric(text) ==
    /\ text # <<>>
    /\ \A i \in 1..Len(text) : \E k \in 1..Len(Digits) : Digits[k] = text[i]

RECURSIVE Number(_)
Number(text) ==
    IF text = <<>> THEN 0
    ELSE 10 * Number(SubSeq(text, 1, Len(text) - 1)) + DigitValue(text[Len(text)])

\* REAL affinity: a text that reads as a number is stored as that number,
\* any other text is stored as it is
RealAffinity(text) ==
    IF IsNumeric(text) THEN [real |-> Number(text)] ELSE [text |-> text]

\* Python's str * int: the text repeated, empty when the count is not positive
RECURSIVE Repeat(_, _)
Repeat(text, n) == IF n <= 0 THEN <<>> ELSE text \o Repeat(text, n - 1)

\* total = price * total_days, on the float or the str that the price is
Total(price, total_days) ==
    IF IsReal(price) THEN [real |-> price.real * total_days]
    ELSE [text |-> Repeat(price.text, total_days)]

\* ------------------------------------------------------------- password
GeneratePasswordHash(password) == [method |-> "pbkdf2", of |-> password]

CheckPasswordHash(hash, password) == hash.of = password

\* -------------------------------------------------------------- session
EmptySession == [k \in {} |-> ""]

\* a route left without the login_required check
LoginRequired_Open(s) == FALSE

\* login_required: 'user_id' not in session, the request is redirected
LoginRequired(s) == "user_id" \notin DOMAIN s

FetchUser(d, username) ==
    IF \E i \in 1..Len(d.users) : d.users[i].username = username
    THEN d.users[CHOOSE i \in 1..Len(d.users) : d.users[i].username = username]
    ELSE NoRow

\* ------------------------------------------------------------ statements
\* SELECT * FROM rooms WHERE status='Disponible'
SelectAvailable(rooms) == SelectSeq(rooms, LAMBDA r : r.status = Disponible)

\* a rooms table without the UNIQUE constraint on number
NumberTaken_Never(d, number) == FALSE

NumberTaken(d, number) == \E r \in Rows(d.rooms) : r.number = number

InsertClient(d, name, phone) ==
    [d EXCEPT !.clients =
        Append(@, [id |-> NextId(@), name |-> name, phone |-> phone])]

InsertRoom(d, number, type, price) ==
    [d EXCEPT !.rooms =
        Append(@, [id |-> NextId(@), number |-> number, type |-> type,
                   price |-> RealAffinity(price), status |-> Disponible])]

InsertBooking(d, client_id, room_id, checkin, checkout, total) ==
    [d EXCEPT !.bookings =
        Append(@, [id |-> NextId(@), client_id |-> client_id,
                   room_id |-> room_id, checkin |-> checkin,
                   checkout |-> checkout,
                   total |-> IF IsReal(total) THEN total
                             ELSE RealAffinity(total.text)])]

\* a booking that leaves the room's status alone
UpdateRoomOccupied_NoUpdate(d, room_id) == d

UpdateRoomOccupied(d, room_id) ==
    [d EXCEPT !.rooms =
        [i \in 1..Len(@) |->
            IF @[i].id = room_id THEN [@[i] EXCEPT !.status = Occupee] ELSE @[i]]]

\* SELECT COUNT(*) FROM rooms WHERE status='Occupée'
CountOccupied(rooms) ==
    Cardinality({i \in 1..Len(rooms) : rooms[i].status = Occupee})

\* SELECT SUM(total) FROM bookings ... or 0: a total that is a text which
\* does not start with a number adds nothing
RECURSIVE SumTotal(_)
SumTotal(bs) ==
    IF bs = <<>> THEN 0
    ELSE (IF IsReal(Head(bs).total) THEN Head(bs).total.real ELSE 0)
         + SumTotal(Tail(bs))

\* the bookings listing: bookings JOIN clients JOIN rooms
RECURSIVE JoinBookings(_, _)
JoinBookings(d, bs) ==
    IF bs = <<>> THEN <<>>
    ELSE LET b == Head(bs)
             c == FetchById(d.clients, b.client_id)
             r == FetchById(d.rooms, b.room_id)
         IN  IF c = NoRow \/ r = NoRow
             THEN JoinBookings(d, Tail(bs))
             ELSE <<[id |-> b.id, client_name |-> c.name,
                     room_number |-> r.number, checkin |-> b.checkin,
                     checkout |-> b.checkout, total |-> b.total]>>
                  \o JoinBookings(d, Tail(bs))

\* the invoice's row: the booking joined with its client and its room
InvoiceRow(d, booking_id) ==
    LET b == FetchById(d.bookings, booking_id)
        c == IF b = NoRow THEN NoRow ELSE FetchById(d.clients, b.client_id)
        r == IF b = NoRow THEN NoRow ELSE FetchById(d.rooms, b.room_id)
    IN  IF b = NoRow \/ c = NoRow \/ r = NoRow THEN NoRow
        ELSE [id |-> b.id, client_name |-> c.name, phone |-> c.phone,
              room_number |-> r.number, type |-> r.type,
              checkin |-> b.checkin, checkout |-> b.checkout, total |-> b.total]

\* what GET /invoice/<id> answers
InvoiceResponse(d, booking_id) ==
    LET booking == InvoiceRow(d, booking_id)
    IN  IF booking = NoRow
        THEN [route |-> "invoice", status |-> "Réservation introuvable"]
        ELSE [route |-> "invoice", status |-> "pdf",
              title |-> "FACTURE HÔTEL",
              client |-> <<booking.client_name, booking.phone>>,
              chambre |-> <<booking.room_number, booking.type>>,
              checkin |-> booking.checkin, checkout |-> booking.checkout,
              total |-> booking.total]

\* ------------------------------------------------------------ responses
RedirectLogin(route) == [route |-> route, status |-> "redirect:login"]
ServerError(route, exc) == [route |-> route, status |-> exc]

NoResponse == [route |-> "none", status |-> "none"]

\* worker p is free to take a request
Accepts(p) == pc[p] = "idle"

\* worker p answers its request with r
Respond(p, r) ==
    /\ resp' = r
    /\ pc' = [pc EXCEPT ![p] = "idle"]
    /\ local' = [local EXCEPT ![p] = NoLocal]

\* worker p moves on to step s of its handler
Goto(p, s) ==
    /\ resp' = NoResponse
    /\ pc' = [pc EXCEPT ![p] = s]

\* ------------------------------------------------------------ the bound
StoredRows(d) == Len(d.clients) + Len(d.rooms) + Len(d.bookings)

\* worker p serves a request that has yet to commit a row
Inserting(p) ==
    \/ pc[p] \in {"insert_client", "clients_commit", "rooms_commit",
                  "select_price", "insert_booking", "update_room",
                  "bookings_commit"}
    \/ pc[p] = "insert_room" /\ ~NumberTaken(db, local[p].number)
    \/ pc[p] = "select_rooms" /\ local[p].method = "POST"

\* the store has room for the row of one more request
HasRoom == StoredRows(db) + Cardinality({p \in Workers : Inserting(p)}) < MaxRows

\* ----------------------------------------------------------------- Init
Init ==
    /\ db = [users |-> <<[id |-> 1, username |-> "admin",
                          password |-> GeneratePasswordHash("admin123"),
                          role |-> "admin"]>>,
             clients |-> <<>>, rooms |-> <<>>, bookings |-> <<>>]
    /\ session = EmptySession
    /\ lock = NoLock
    /\ pc = [p \in Workers |-> "idle"]
    /\ local = [p \in Workers |-> NoLocal]
    /\ txn = [p \in Workers |-> NoTxn]
    /\ resp = NoResponse

\* --------------------------------------------------------------- /login
LoginGet(p) ==
    /\ Accepts(p)
    /\ Respond(p, [route |-> "login", status |-> "login.html"])
    /\ UNCHANGED <<db, session, lock, txn>>

Login(p, username, password) ==
    /\ Accepts(p)
    /\ LET user == FetchUser(db, username)
       IN  IF user # NoRow /\ CheckPasswordHash(user.password, password)
           THEN /\ session' = [user_id |-> user.id, username |-> user.username,
                               role |-> user.role]
                /\ Respond(p, [route |-> "login", status |-> "redirect:dashboard"])
           ELSE /\ session' = session
                /\ Respond(p, [route |-> "login", status |-> "login.html:error"])
    /\ UNCHANGED <<db, lock, txn>>

\* -------------------------------------------------------------- /logout
Logout(p) ==
    /\ Accepts(p)
    /\ IF LoginRequired(session)
       THEN /\ session' = session
            /\ Respond(p, RedirectLogin("logout"))
       ELSE /\ session' = EmptySession
            /\ Respond(p, RedirectLogin("logout"))
    /\ UNCHANGED <<db, lock, txn>>

\* ------------------------------------------------------------------- /
\* SELECT COUNT(*) FROM rooms
Dashboard(p) ==
    /\ Accepts(p)
    /\ IF LoginRequired(session)
       THEN /\ Respond(p, RedirectLogin("dashboard"))
       ELSE /\ local' = [local EXCEPT ![p] = [total_rooms |-> Len(db.rooms)]]
            /\ Goto(p, "count_occupied")
    /\ UNCHANGED <<db, session, lock, txn>>

\* SELECT COUNT(*) FROM rooms WHERE status='Occupée'
DashboardOccupied(p) ==
    /\ pc[p] = "count_occupied"
    /\ local' = [local EXCEPT ![p] =
                    [total_rooms |-> local[p].total_rooms,
                     occupied_rooms |-> CountOccupied(db.rooms)]]
    /\ Goto(p, "sum_total")
    /\ UNCHANGED <<db, session, lock, txn>>

\* SELECT SUM(total) FROM bookings, and the page
DashboardRevenue(p) ==
    /\ pc[p] = "sum_total"
    /\ Respond(p, [route |-> "dashboard", status |-> "200",
                   total_rooms |-> local[p].total_rooms,
                   occupied_rooms |-> local[p].occupied_rooms,
                   available_rooms |->
                       local[p].total_rooms - local[p].occupied_rooms,
                   revenue |-> SumTotal(db.bookings)])
    /\ UNCHANGED <<db, session, lock, txn>>

\* ------------------------------------------------------------- /clients
ClientsGet(p) ==
    /\ Accepts(p)
    /\ IF LoginRequired(session)
       THEN Respond(p, RedirectLogin("clients"))
       ELSE Respond(p, [route |-> "clients", status |-> "200",
                        clients |-> db.clients])
    /\ UNCHANGED <<db, session, lock, txn>>

\* login_required passes and the handler opens its connection
ClientsPost(p) ==
    /\ Accepts(p)
    /\ IF LoginRequired(session)
       THEN /\ Respond(p, RedirectLogin("clients"))
       ELSE /\ HasRoom
            /\ Goto(p, "insert_client")
            /\ local' = local
    /\ UNCHANGED <<db, session, lock, txn>>

\* the INSERT, once the write lock is free, opens the connection's
\* transaction and takes the lock
ClientsInsert(p, name, phone) ==
    /\ pc[p] = "insert_client"
    /\ lock = NoLock
    /\ lock' = p
    /\ txn' = [txn EXCEPT ![p] = InsertClient(db, name, phone)]
    /\ Goto(p, "clients_commit")
    /\ UNCHANGED <<db, session, local>>

ClientsCommit(p) ==
    /\ pc[p] = "clients_commit"
    /\ db' = txn[p]
    /\ txn' = [txn EXCEPT ![p] = NoTxn]
    /\ lock' = NoLock
    /\ Goto(p, "clients_list")
    /\ UNCHANGED <<session, local>>

\* SELECT * FROM clients after the commit, and the page
ClientsList(p) ==
    /\ pc[p] = "clients_list"
    /\ Respond(p, [route |-> "clients", status |-> "200",
                   clients |-> db.clients])
    /\ UNCHANGED <<db, session, lock, txn>>

\* --------------------------------------------------------------- /rooms
RoomsGet(p) ==
    /\ Accepts(p)
    /\ IF LoginRequired(session)
       THEN Respond(p, RedirectLogin("rooms"))
       ELSE Respond(p, [route |-> "rooms", status |-> "200",
                        rooms |-> db.rooms])
    /\ UNCHANGED <<db, session, lock, txn>>

\* login_required passes and the handler reads the form
RoomsPost(p, number, type, price) ==
    /\ Accepts(p)
    /\ IF LoginRequired(session)
       THEN /\ Respond(p, RedirectLogin("rooms"))
       ELSE /\ NumberTaken(db, number) \/ HasRoom
            /\ local' = [local EXCEPT ![p] =
                            [number |-> number, type |-> type,
                             price |-> price]]
            /\ Goto(p, "insert_room")
    /\ UNCHANGED <<db, session, lock, txn>>

\* The INSERT, once the write lock is free, takes it.  Under a number that
\* a stored room has it raises IntegrityError: the request is answered with
\* the error and the connection, which nothing closes, keeps its
\* transaction and the lock.
RoomsInsert(p) ==
    /\ pc[p] = "insert_room"
    /\ lock = NoLock
    /\ IF NumberTaken(db, local[p].number)
       THEN /\ lock' = Leaked
            /\ Respond(p, ServerError("rooms", "IntegrityError"))
            /\ txn' = txn
       ELSE /\ lock' = p
            /\ txn' = [txn EXCEPT ![p] =
                          InsertRoom(db, local[p].number, local[p].type,
                                     local[p].price)]
            /\ local' = [local EXCEPT ![p] = NoLocal]
            /\ Goto(p, "rooms_commit")
    /\ UNCHANGED <<db, session>>

RoomsCommit(p) ==
    /\ pc[p] = "rooms_commit"
    /\ db' = txn[p]
    /\ txn' = [txn EXCEPT ![p] = NoTxn]
    /\ lock' = NoLock
    /\ Goto(p, "rooms_list")
    /\ UNCHANGED <<session, local>>

\* SELECT * FROM rooms after the commit, and the page
RoomsList(p) ==
    /\ pc[p] = "rooms_list"
    /\ Respond(p, [route |-> "rooms", status |-> "200", rooms |-> db.rooms])
    /\ UNCHANGED <<db, session, lock, txn>>

\* an INSERT that finds the write lock taken for the whole busy timeout
\* raises OperationalError: database is locked
InsertLocked(p) ==
    /\ pc[p] \in {"insert_client", "insert_room"}
    /\ lock # NoLock
    /\ Respond(p, ServerError(IF pc[p] = "insert_client" THEN "clients"
                                                         ELSE "rooms",
                              "OperationalError"))
    /\ UNCHANGED <<db, session, lock, txn>>

\* the garbage collector closes the connection that a failed handler left
\* open: its transaction is rolled back and the write lock released
CollectGarbage ==
    /\ lock = Leaked
    /\ lock' = NoLock
    /\ resp' = NoResponse
    /\ UNCHANGED <<db, session, pc, local, txn>>

\* ------------------------------------------------------------ /bookings
\* SELECT * FROM clients
Bookings(p, method) ==
    /\ Accepts(p)
    /\ IF LoginRequired(session)
       THEN /\ Respond(p, RedirectLogin("bookings"))
       ELSE /\ method = "POST" => HasRoom
            /\ local' = [local EXCEPT ![p] =
                            [method |-> method, clients |-> db.clients]]
            /\ Goto(p, "select_rooms")
    /\ UNCHANGED <<db, session, lock, txn>>

\* SELECT * FROM rooms WHERE status='Disponible'
SelectRooms(p) ==
    /\ pc[p] = "select_rooms"
    /\ local' = [local EXCEPT ![p] =
                    [clients |-> local[p].clients,
                     rooms |-> SelectAvailable(db.rooms)]]
    /\ Goto(p, IF local[p].method = "POST" THEN "select_price" ELSE "join")
    /\ UNCHANGED <<db, session, lock, txn>>

\* The form of a POST is fixed when the request arrives and no statement
\* before line 207 depends on it: each field is drawn by the step that
\* first uses it.
\* SELECT price FROM rooms WHERE id=?, for the room_id of the form;
\* fetchone() of no row is None, and None[0] raises TypeError
SelectPrice(p, room_id) ==
    /\ pc[p] = "select_price"
    /\ LET row == FetchById(db.rooms, room_id)
       IN  IF row = NoRow
           THEN Respond(p, ServerError("bookings", "TypeError"))
           ELSE /\ local' = [local EXCEPT ![p] =
                                [clients |-> local[p].clients,
                                 rooms |-> local[p].rooms,
                                 room_id |-> room_id, price |-> row.price]]
                /\ Goto(p, "insert_booking")
    /\ UNCHANGED <<db, session, lock, txn>>

\* an INSERT whose row is visible to the other connections at once
InsertBookingStep_Autocommit(p, client_id, checkin, checkout) ==
    /\ pc[p] = "insert_booking"
    /\ ValidDate(checkin) /\ ValidDate(checkout)
    /\ lock = NoLock
    /\ lock' = p
    /\ db' = InsertBooking(db, client_id, local[p].room_id, checkin, checkout,
                 Total(local[p].price, TotalDays(checkin, checkout)))
    /\ txn' = [txn EXCEPT ![p] = db']
    /\ local' = [local EXCEPT ![p] =
                    [clients |-> local[p].clients, rooms |-> local[p].rooms,
                     room_id |-> local[p].room_id]]
    /\ Goto(p, "update_room")
    /\ session' = session

\* strptime of the form's dates, total = price * total_days, and the INSERT,
\* which opens the transaction and takes the write lock
InsertBookingStep(p, client_id, checkin, checkout) ==
    /\ pc[p] = "insert_booking"
    /\ IF ~(ValidDate(checkin) /\ ValidDate(checkout))
       THEN /\ Respond(p, ServerError("bookings", "ValueError"))
            /\ UNCHANGED <<lock, txn>>
       ELSE /\ lock = NoLock
            /\ lock' = p
            /\ txn' = [txn EXCEPT ![p] =
                          InsertBooking(db, client_id, local[p].room_id,
                              checkin, checkout,
                              Total(local[p].price,
                                    TotalDays(checkin, checkout)))]
            /\ local' = [local EXCEPT ![p] =
                            [clients |-> local[p].clients,
                             rooms |-> local[p].rooms,
                             room_id |-> local[p].room_id]]
            /\ Goto(p, "update_room")
    /\ UNCHANGED <<db, session>>

\* the INSERT of a form with valid dates finds the write lock taken
InsertBookingLocked(p) ==
    /\ pc[p] = "insert_booking"
    /\ lock # NoLock
    /\ Respond(p, ServerError("bookings", "OperationalError"))
    /\ UNCHANGED <<db, session, lock, txn>>

\* UPDATE rooms SET status='Occupée' WHERE id=?
UpdateRoomStep(p) ==
    /\ pc[p] = "update_room"
    /\ txn' = [txn EXCEPT ![p] = UpdateRoomOccupied(txn[p], local[p].room_id)]
    /\ Goto(p, "bookings_commit")
    /\ UNCHANGED <<db, session, lock, local>>

BookingsCommit(p) ==
    /\ pc[p] = "bookings_commit"
    /\ db' = txn[p]
    /\ txn' = [txn EXCEPT ![p] = NoTxn]
    /\ lock' = NoLock
    /\ local' = [local EXCEPT ![p] =
                    [clients |-> local[p].clients, rooms |-> local[p].rooms]]
    /\ Goto(p, "join")
    /\ session' = session

\* the listing SELECT ... FROM bookings JOIN clients JOIN rooms, and the page
BookingsJoin(p) ==
    /\ pc[p] = "join"
    /\ Respond(p, [route |-> "bookings", status |-> "200",
                   clients |-> local[p].clients, rooms |-> local[p].rooms,
                   bookings |-> JoinBookings(db, db.bookings)])
    /\ UNCHANGED <<db, session, lock, txn>>

\* ------------------------------------------------------------- /invoice
Invoice(p, booking_id) ==
    /\ Accepts(p)
    /\ IF LoginRequired(session)
       THEN Respond(p, RedirectLogin("invoice"))
       ELSE Respond(p, InvoiceResponse(db, booking_id))
    /\ UNCHANGED <<db, session, lock, txn>>

\* ----------------------------------------------------------------- Next
Next ==
    \/ \E p \in Workers :
        \/ LoginGet(p)
        \/ \E u \in Usernames, pw \in Passwords : Login(p, u, pw)
        \/ Logout(p)
        \/ Dashboard(p)
        \/ DashboardOccupied(p)
        \/ DashboardRevenue(p)
        \/ ClientsGet(p)
        \/ ClientsPost(p)
        \/ \E n \in Names, ph \in Phones : ClientsInsert(p, n, ph)
        \/ ClientsCommit(p)
        \/ ClientsList(p)
        \/ RoomsGet(p)
        \/ \E f \in RoomForms : RoomsPost(p, f[1], f[2], f[3])
        \/ RoomsInsert(p)
        \/ RoomsCommit(p)
        \/ RoomsList(p)
        \/ InsertLocked(p)
        \/ \E m \in Methods : Bookings(p, m)
        \/ SelectRooms(p)
        \/ \E r \in RoomIds : SelectPrice(p, r)
        \/ \E f \in BookingForms : InsertBookingStep(p, f[1], f[2], f[3])
        \/ InsertBookingLocked(p)
        \/ UpdateRoomStep(p)
        \/ BookingsCommit(p)
        \/ BookingsJoin(p)
        \/ \E b \in BookingIds : Invoice(p, b)
    \/ CollectGarbage

\* app.run(debug=False): the threaded development server
Spec == Init /\ [][Next]_vars

TypeOK ==
    /\ lock \in {NoLock, Leaked} \cup Workers
    /\ \A p \in Workers : (txn[p] # NoTxn) <=> (lock = p)

\* =============================================================== claims
RoomOf(d, b) == FetchById(d.rooms, b.room_id)

BookingsOfRoom(d, room_id) ==
    {i \in 1..Len(d.bookings) : d.bookings[i].room_id = room_id}

Unauthenticated == DOMAIN session = {}

BookingErrors == {"TypeError", "ValueError", "OperationalError"}

\* ------------------------------------------------------------------- C1
OccupiedIffBooked ==
    \A r \in Rows(db.rooms) :
        (r.status = Occupee) <=> (BookingsOfRoom(db, r.id) # {})

NewRoomAvailable ==
    \A i \in 1..Len(db'.rooms) :
        i > Len(db.rooms) =>
            /\ db'.rooms[i].status = Disponible
            /\ BookingsOfRoom(db', db'.rooms[i].id) = {}

\* C1: in every reachable state a room is Occupied exactly when a stored
\* booking references it, and a room that has just been added is Available
\* and referenced by no booking.
C1_OccupiedIffBooked == []OccupiedIffBooked /\ [][NewRoomAvailable]_vars

C1_Witness ==
    /\ resp.route = "bookings" /\ resp.status = "200"
    /\ \E r \in Rows(db.rooms) :
           r.status = Occupee /\ BookingsOfRoom(db, r.id) # {}
    /\ \E r \in Rows(db.rooms) :
           r.status = Disponible /\ BookingsOfRoom(db, r.id) = {}

\* ------------------------------------------------------------------- C2
\* C2: a booking requested for a room that was already Occupied when the
\* request listed the available rooms is rejected: its commit stores no
\* booking.
C2_OccupiedRoomRejected ==
    [][\A p \in Workers :
          (/\ pc[p] = "bookings_commit"
           /\ \E r \in Rows(db.rooms) :
                  r.id = local[p].room_id /\ r.status = Occupee
           /\ \A r \in Rows(local[p].rooms) : r.id # local[p].room_id)
          => db'.bookings = db.bookings]_vars

\* ------------------------------------------------------------------- C3
\* C3: of two booking requests that both listed the same room as Available,
\* only one stores a booking: once the room is Occupied the other request's
\* commit stores nothing.
C3_OneOfTwoSucceeds ==
    [][\A p \in Workers :
          (/\ pc[p] = "bookings_commit"
           /\ \E r \in Rows(db.rooms) :
                  r.id = local[p].room_id /\ r.status = Occupee
           /\ \E r \in Rows(local[p].rooms) : r.id = local[p].room_id)
          => db'.bookings = db.bookings]_vars

\* ------------------------------------------------------------------- C4
\* C4: every stored booking has its checkout strictly after its checkin.
C4_CheckoutAfterCheckin ==
    \A b \in Rows(db.bookings) : Strptime(b.checkout) > Strptime(b.checkin)

\* ------------------------------------------------------------------- C5
TotalIsRateTimesNights ==
    \A b \in Rows(db.bookings) :
        RoomOf(db, b) # NoRow =>
            /\ IsReal(b.total)
            /\ IsReal(RoomOf(db, b).price)
            /\ b.total.real = RoomOf(db, b).price.real
                              * (Strptime(b.checkout) - Strptime(b.checkin))

BookingsAndRatesKept ==
    /\ \A i \in 1..Len(db.bookings) :
           Len(db'.bookings) >= i /\ db'.bookings[i] = db.bookings[i]
    /\ \A i \in 1..Len(db.rooms) :
           Len(db'.rooms) >= i /\ db'.rooms[i].price = db.rooms[i].price
                               /\ db'.rooms[i].id = db.rooms[i].id

\* C5: every stored booking's total is a number, its room's nightly rate
\* times the whole days from checkin to checkout, and no step changes a
\* stored booking or a room's rate.
C5_TotalIsRateTimesNights ==
    []TotalIsRateTimesNights /\ [][BookingsAndRatesKept]_vars

\* ------------------------------------------------------------------- C6
StoreStepAtomic ==
    \/ /\ db'.bookings = db.bookings
       /\ \A i \in 1..Len(db.rooms) :
              Len(db'.rooms) >= i /\ db'.rooms[i] = db.rooms[i]
    \/ /\ Len(db'.bookings) = Len(db.bookings) + 1
       /\ SubSeq(db'.bookings, 1, Len(db.bookings)) = db.bookings
       /\ Len(db'.rooms) = Len(db.rooms)
       /\ LET b == db'.bookings[Len(db'.bookings)]
          IN  \A i \in 1..Len(db.rooms) :
                  IF db.rooms[i].id = b.room_id
                  THEN db'.rooms[i] = [db.rooms[i] EXCEPT !.status = Occupee]
                  ELSE db'.rooms[i] = db.rooms[i]

FailedBookingStoresNothing ==
    (resp'.route = "bookings" /\ resp'.status \in BookingErrors)
        => /\ db' = db
           /\ \A p \in Workers : pc'[p] = "idle" => txn'[p] = NoTxn /\ lock' # p

\* C6: every step leaves the committed store either without a new booking
\* and with every room's status as it was, or with exactly one new booking
\* whose room has become Occupied; a booking request that fails stores
\* nothing and leaves no open transaction.
C6_BookingAtomic == [][StoreStepAtomic /\ FailedBookingStoresNothing]_vars

C6_Witness ==
    /\ resp.route = "bookings" /\ resp.status = "ValueError"
    /\ db.rooms # <<>>
    /\ db.bookings = <<>>
    /\ \A r \in Rows(db.rooms) : r.status = Disponible

\* ------------------------------------------------------------------- C7
UniqueNumbers ==
    \A i, j \in 1..Len(db.rooms) :
        db.rooms[i].number = db.rooms[j].number => i = j

DuplicateStoresNothing ==
    (resp'.route = "rooms" /\ resp'.status = "IntegrityError") => db' = db

NumberAddedOnce ==
    \A i \in 1..Len(db'.rooms) :
        i > Len(db.rooms) =>
            \A j \in 1..Len(db.rooms) : db.rooms[j].number # db'.rooms[i].number

\* C7: no two stored rooms share a number: a room is only ever added under
\* a number no stored room has, and the request answered with the
\* duplicate-key error leaves the store unchanged.
C7_UniqueRoomNumber ==
    []UniqueNumbers /\ [][DuplicateStoresNothing /\ NumberAddedOnce]_vars

C7_Witness ==
    /\ resp.route = "rooms" /\ resp.status = "IntegrityError"
    /\ db.rooms # <<>>

\* ------------------------------------------------------------------- C8
\* C8: every stored booking references an existing client and an existing
\* room.
C8_ReferencesExist ==
    \A b \in Rows(db.bookings) :
        /\ \E c \in Rows(db.clients) : c.id = b.client_id
        /\ \E r \in Rows(db.rooms) : r.id = b.room_id

\* ------------------------------------------------------------------- C9
\* C9: the invoice of an id that no stored booking has is the not-found
\* answer, and the invoice of every stored booking is a document with that
\* booking's client, room, dates and total.
C9_InvoiceForEveryBooking ==
    \A id \in BookingIds :
        LET answer == InvoiceResponse(db, id)
        IN  IF \E b \in Rows(db.bookings) : b.id = id
            THEN /\ answer.status = "pdf"
                 /\ \E b \in Rows(db.bookings) :
                        /\ b.id = id
                        /\ \E c \in Rows(db.clients) :
                               /\ c.id = b.client_id
                               /\ answer.client = <<c.name, c.phone>>
                        /\ \E r \in Rows(db.rooms) :
                               /\ r.id = b.room_id
                               /\ answer.chambre = <<r.number, r.type>>
                        /\ answer.checkin = b.checkin
                        /\ answer.checkout = b.checkout
                        /\ answer.total = b.total
            ELSE answer.status = "Réservation introuvable"

\* ------------------------------------------------------------------ C10
UnauthenticatedStep ==
    Unauthenticated =>
        /\ \A p \in Workers : pc[p] = "idle" => pc'[p] = "idle"
        /\ pc' = pc =>
               /\ db' = db /\ txn' = txn
               /\ \/ resp' = resp /\ lock' = lock
                  \/ resp' = NoResponse /\ lock = Leaked /\ lock' = NoLock
                  \/ resp'.route = "login" /\ lock' = lock
                  \/ resp' = RedirectLogin(resp'.route) /\ lock' = lock

\* C10: while the session holds no user, a request to any route but /login
\* starts no handler, changes nothing in the store and is answered with the
\* redirect to the login page.
C10_UnauthenticatedRejected == [][UnauthenticatedStep]_vars

C10_Witness ==
    /\ Unauthenticated
    /\ resp = RedirectLogin("bookings")
    /\ db.rooms # <<>>

====
